---- MODULE Spec2Model ----
(***************************************************************************)
(* A model of src/src/main.rs of rdmulford/wordle-solver: the word loader  *)
(* (parse_words), the dispatch in main, the solver loop (solve), the       *)
(* interactive loop (play), and the pure functions narrow_guesses,         *)
(* get_hints and is_winner.                                                *)
(*                                                                         *)
(* A word is a sequence of one-character strings.  A line of words.txt is  *)
(* the sequence of its tab-separated fields.  A Hint is a record           *)
(* [letter, position, kind] with a 0-based position, as in the source.     *)
(***************************************************************************)
EXTENDS Integers, Sequences, FiniteSets

VARIABLES
    file,            \* content of ./words.txt: a sequence of lines
    count,           \* args.delegate.count, as a natural number
    pc,              \* control position
    idx,             \* parse_words: number of lines the reader has consumed
    c,               \* parse_words: the u64 counter c, as 16-bit limbs
    words,           \* main: the loaded word vector
    command,         \* main: the subcommand taken ("none", "solve", "play")
    target,          \* solve: the target word
    turn,            \* solve/play: the turn counter
    possible_words,  \* solve/play: the candidate list
    guess,           \* solve: most_popular, play: guess
    hint,            \* play: the hint buffer after read_line and pop
    hints,           \* solve/play: the hints of the current turn
    issued,          \* history: the hint vectors handed to narrow_guesses so far
    outcome,         \* how the run ended, "Guessing" while it has not
    call             \* the last application of a pure function (SpecFn only)

vars == <<file, count, pc, idx, c, words, command, target, turn,
          possible_words, guess, hint, hints, issued, outcome, call>>

-----------------------------------------------------------------------------
(* Program constants *)

WordLen == 5
MaxTurns == 6
DefaultCount == 10000
LimbBase == 65536
U64Limbs == 4

(* Bounds of the model *)

MaxCount == 2
MaxListLen == 2
MaxHints == 2

-----------------------------------------------------------------------------
(* u64 arithmetic of the counter c, most significant limb first *)

ToU64(n) == [i \in 1..U64Limbs |-> IF i = U64Limbs THEN n ELSE 0]

u64_is_zero(x) == \A i \in 1..U64Limbs : x[i] = 0

RECURSIVE u64_borrow(_, _)
u64_borrow(x, i) ==
    IF i = 0 THEN x
    ELSE IF x[i] > 0 THEN [x EXCEPT ![i] = x[i] - 1]
    ELSE u64_borrow([x EXCEPT ![i] = LimbBase - 1], i - 1)

\* c - 1 modulo 2^64
u64_wrapping_dec(x) == u64_borrow(x, U64Limbs)

-----------------------------------------------------------------------------
(* Strings and vectors *)

\* Vec::pop and String::pop: drop the last element, nothing on an empty one
Pop(s) == SubSeq(s, 1, Len(s) - 1)

\* str::contains(char)
contains(word, letter) == \E i \in 1..Len(word) : word[i] = letter

\* word.chars().nth(pos).unwrap()
nth(word, pos) == word[pos + 1]

Range(s) == {s[i] : i \in 1..Len(s)}

-----------------------------------------------------------------------------
(* narrow_guesses *)

\* hint_rejects with the black test looking at the hint's position only
hint_rejects_black_at_position(word, h) ==
    \/ h.kind = "g" /\ nth(word, h.position) # h.letter
    \/ h.kind = "y" /\ (nth(word, h.position) = h.letter \/ ~contains(word, h.letter))
    \/ h.kind = "b" /\ nth(word, h.position) = h.letter

\* hint_rejects with the yellow test missing its position half
hint_rejects_yellow_anywhere(word, h) ==
    \/ h.kind = "g" /\ nth(word, h.position) # h.letter
    \/ h.kind = "y" /\ ~contains(word, h.letter)
    \/ h.kind = "b" /\ contains(word, h.letter)

\* the three rejection tests of the inner loop, for one hint
hint_rejects(word, h) ==
    \/ h.kind = "g" /\ nth(word, h.position) # h.letter
    \/ h.kind = "y" /\ (nth(word, h.position) = h.letter \/ ~contains(word, h.letter))
    \/ h.kind = "b" /\ contains(word, h.letter)

\* the inner loop from hint i on: is_valid falls to false at the first
\* rejecting hint and the loop breaks
RECURSIVE is_valid(_, _, _)
is_valid(word, hs, i) ==
    IF i > Len(hs) THEN TRUE
    ELSE IF hint_rejects(word, hs[i]) THEN FALSE
    ELSE is_valid(word, hs, i + 1)

\* what one iteration of the outer loop does to guesses
push_if_valid(guesses, word, hs) ==
    IF is_valid(word, hs, 1) THEN Append(guesses, word) ELSE guesses

\* the outer loop from word i on
RECURSIVE narrow_loop(_, _, _, _)
narrow_loop(ws, hs, i, guesses) ==
    IF i > Len(ws) THEN guesses
    ELSE narrow_loop(ws, hs, i + 1, push_if_valid(guesses, ws[i], hs))

\* narrow_guesses with the outer loop starting one word late
narrow_guesses_skip_first(ws, hs) == narrow_loop(ws, hs, 2, <<>>)

narrow_guesses(ws, hs) == narrow_loop(ws, hs, 1, <<>>)

-----------------------------------------------------------------------------
(* get_hints and is_winner *)

\* hint_kind with green and yellow exchanged
hint_kind_swapped(ch, pos, tgt) ==
    IF ~contains(tgt, ch) THEN "b"
    ELSE IF nth(tgt, pos) = ch THEN "y" ELSE "g"

\* hint_kind without the containment test: black wherever not green
hint_kind_no_yellow(ch, pos, tgt) ==
    IF nth(tgt, pos) = ch THEN "g" ELSE "b"

\* the kind computed for letter ch of the guess at position pos
hint_kind(ch, pos, tgt) ==
    LET first == IF contains(tgt, ch)
                 THEN (IF nth(tgt, pos) = ch THEN "g" ELSE "y")
                 ELSE "b"
    IN  IF ~contains(tgt, ch) THEN "b" ELSE first

make_hint(ch, pos, tgt) ==
    [kind |-> hint_kind(ch, pos, tgt), letter |-> ch, position |-> pos]

\* the loop over guess.chars(), pos counting from 0
RECURSIVE get_hints_loop(_, _, _, _)
get_hints_loop(g, tgt, pos, hs) ==
    IF pos >= Len(g) THEN hs
    ELSE get_hints_loop(g, tgt, pos + 1, Append(hs, make_hint(g[pos + 1], pos, tgt)))

get_hints(g, tgt) == get_hints_loop(g, tgt, 0, <<>>)

RECURSIVE is_winner_loop(_, _)
is_winner_loop(hs, i) ==
    IF i > Len(hs) THEN TRUE
    ELSE IF hs[i].kind # "g" THEN FALSE
    ELSE is_winner_loop(hs, i + 1)

is_winner(hs) == is_winner_loop(hs, 1)

\* play: the Hint vector built from the hint string and the guess
RECURSIVE play_hints_loop(_, _, _, _)
play_hints_loop(g, h, pos, hs) ==
    IF pos >= Len(h) THEN hs
    ELSE play_hints_loop(g, h, pos + 1,
            Append(hs, [kind |-> h[pos + 1], position |-> pos, letter |-> nth(g, pos)]))

play_hints(g, h) == play_hints_loop(g, h, 0, <<>>)

-----------------------------------------------------------------------------
(* Inputs: the words file, the count option, the target, the typed lines *)

Line(w) == <<w, <<"1">>>>

\* twelve lines: ten 5-letter words, one 4-letter word, one 6-letter word
MasterFile == <<
    Line(<<"e","a","b","c","d">>),
    Line(<<"a","a","b","c","d">>),
    Line(<<"b","a","c","d","e">>),
    Line(<<"f","b","c","d","e">>),
    Line(<<"g","b","c","d","e">>),
    Line(<<"b","c","d","e">>),
    Line(<<"h","b","c","d","e">>),
    Line(<<"i","b","c","d","e">>),
    Line(<<"j","b","c","d","e">>),
    Line(<<"k","b","c","d","e">>),
    Line(<<"a","b","c","d","e">>),
    Line(<<"a","b","c","d","e","f">>) >>

\* the files of the model: every run of consecutive lines of MasterFile
Files ==
    {SubSeq(MasterFile, i, j) : i \in 1..(Len(MasterFile) + 1), j \in 0..Len(MasterFile)}

Counts == (0..MaxCount) \cup {DefaultCount}

Targets == {
    <<"a","b","c","d","e">>,
    <<"k","b","c","d","e">>,
    <<"e","a","b","c","d">>,
    <<"z","z","z","z","z">>,
    <<"b","c","d","e">> }

Kinds == {"g", "y", "b"}

\* what the user types before the line terminator
HintStrings ==
    [1..WordLen -> Kinds]
        \cup {<<>>, <<"g","g","g","g">>, <<"g","g","g","g","g","g">>}

\* what read_line appends to the buffer: a terminated line, or nothing at
\* end of input
RawLines == {Append(h, "\n") : h \in HintStrings} \cup {<<>>}

AllGreen == <<"g","g","g","g","g">>

NoCall == [fn |-> "none"]

-----------------------------------------------------------------------------
(* main up to the subcommand: parse_words *)

Init ==
    /\ file \in Files
    /\ count \in Counts
    /\ pc = "parse"
    /\ idx = 0
    /\ c = ToU64(count)
    /\ words = <<>>
    /\ command = "none"
    /\ target = <<>>
    /\ turn = 0
    /\ possible_words = <<>>
    /\ guess = <<>>
    /\ hint = <<>>
    /\ hints = <<>>
    /\ issued = {}
    /\ outcome = "Guessing"
    /\ call = NoCall

\* the word field of a line: split on tab, pop the frequency, pop the word
word_field(l) == LET split == Pop(l) IN split[Len(split)]

\* the loop test after c = c - 1
count_reached(x) == u64_is_zero(x)

\* one iteration of the loop over reader.lines()
ParseLine ==
    /\ pc = "parse"
    /\ idx < Len(file)
    /\ LET word == word_field(file[idx + 1]) IN
       IF Len(word) # WordLen
       THEN /\ idx' = idx + 1
            /\ UNCHANGED <<words, c, pc, outcome>>
       ELSE /\ words' = Append(words, word)
            /\ idx' = idx + 1
            /\ IF u64_is_zero(c)
               THEN \* c - 1 overflows: a build with overflow checks panics,
                    \* a build without them wraps
                    \/ /\ pc' = "done"
                       /\ outcome' = "PanicOverflow"
                       /\ UNCHANGED c
                    \/ /\ c' = u64_wrapping_dec(c)
                       /\ pc' = IF count_reached(c') THEN "parsed" ELSE "parse"
                       /\ UNCHANGED outcome
               ELSE /\ c' = u64_wrapping_dec(c)
                    /\ pc' = IF count_reached(c') THEN "parsed" ELSE "parse"
                    /\ UNCHANGED outcome
    /\ UNCHANGED <<file, count, command, target, turn, possible_words, guess,
                   hint, hints, issued, call>>

\* the reader is exhausted: parse_words returns Ok
ParseEnd ==
    /\ pc = "parse"
    /\ idx = Len(file)
    /\ pc' = "parsed"
    /\ UNCHANGED <<file, count, idx, c, words, command, target, turn,
                   possible_words, guess, hint, hints, issued, outcome, call>>

-----------------------------------------------------------------------------
(* main: the subcommand *)

\* Commands::Solve with a target of the wrong length: main returns
MainSolveBadTarget ==
    /\ pc = "parsed"
    /\ \E t \in Targets :
          /\ Len(t) # WordLen
          /\ target' = t
    /\ command' = "solve"
    /\ pc' = "done"
    /\ outcome' = "BadTarget"
    /\ UNCHANGED <<file, count, idx, c, words, turn, possible_words, guess,
                   hint, hints, issued, call>>

\* Commands::Solve: solve(words, target) is entered
MainSolve ==
    /\ pc = "parsed"
    /\ \E t \in Targets :
          /\ Len(t) = WordLen
          /\ target' = t
    /\ command' = "solve"
    /\ pc' = "solve"
    /\ turn' = 0
    /\ possible_words' = words
    /\ UNCHANGED <<file, count, idx, c, words, guess, hint, hints, issued,
                   outcome, call>>

\* Commands::Play: play(words) is entered
MainPlay ==
    /\ pc = "parsed"
    /\ command' = "play"
    /\ pc' = "play"
    /\ turn' = 0
    /\ possible_words' = words
    /\ UNCHANGED <<file, count, idx, c, words, target, guess, hint, hints,
                   issued, outcome, call>>

-----------------------------------------------------------------------------
(* solve *)

\* turn_limit_reached one turn late
turn_limit_after(t) == t > MaxTurns

\* the turn limit test
turn_limit_reached(t) == t >= MaxTurns

\* the test on the narrowed list
exhausted(ws) == Len(ws) <= 0

\* one iteration of the loop of solve
SolveTurn ==
    /\ pc = "solve"
    /\ turn' = turn + 1
    /\ IF Len(possible_words) = 0
       THEN \* possible_words.get(0) is None and unwrap panics
            /\ pc' = "done"
            /\ outcome' = "PanicEmptyList"
            /\ UNCHANGED <<guess, hints, possible_words, issued>>
       ELSE LET most_popular == possible_words[1]
                hs == get_hints(most_popular, target)
                narrowed == narrow_guesses(possible_words, hs)
            IN  /\ guess' = most_popular
                /\ hints' = hs
                /\ IF is_winner(hs)
                   THEN /\ pc' = "done"
                        /\ outcome' = "Won"
                        /\ UNCHANGED <<possible_words, issued>>
                   ELSE IF turn_limit_reached(turn')
                   THEN /\ pc' = "done"
                        /\ outcome' = "TurnLimitReached"
                        /\ UNCHANGED <<possible_words, issued>>
                   ELSE /\ possible_words' = narrowed
                        /\ issued' = issued \cup Range(hs)
                        /\ IF exhausted(narrowed)
                           THEN pc' = "done" /\ outcome' = "Exhausted"
                           ELSE pc' = "solve" /\ UNCHANGED outcome
    /\ UNCHANGED <<file, count, idx, c, words, command, target, hint, call>>

-----------------------------------------------------------------------------
(* play *)

\* retry_turn without the decrement
retry_turn_kept(t) == t

\* the turn counter after an invalid hint string
retry_turn(t) == t - 1

\* the length test on the hint string
invalid_hint(h) == Len(h) # WordLen

\* the first half of an iteration: count the turn, offer the guess, and
\* make the empty hint buffer
PlayGuess ==
    /\ pc = "play"
    /\ turn' = turn + 1
    /\ IF Len(possible_words) = 0
       THEN \* possible_words.get(0) is None and unwrap panics
            /\ pc' = "done"
            /\ outcome' = "PanicEmptyList"
            /\ UNCHANGED <<guess, hint>>
       ELSE /\ guess' = possible_words[1]
            /\ hint' = <<>>
            /\ pc' = "play_read"
            /\ UNCHANGED outcome
    /\ UNCHANGED <<file, count, idx, c, words, command, target,
                   possible_words, hints, issued, call>>

\* the second half: read_line, pop, and what follows
PlayRead ==
    /\ pc = "play_read"
    /\ \E raw \in RawLines :
          LET h == Pop(raw)
              hs == play_hints(guess, h)
              narrowed == narrow_guesses(possible_words, hs)
          IN  /\ hint' = h
              /\ IF invalid_hint(h)
                 THEN /\ turn' = retry_turn(turn)
                      /\ pc' = "play"
                      /\ UNCHANGED <<hints, possible_words, issued, outcome>>
                 ELSE IF h = AllGreen
                 THEN /\ pc' = "done"
                      /\ outcome' = "Won"
                      /\ UNCHANGED <<turn, hints, possible_words, issued>>
                 ELSE /\ hints' = hs
                      /\ possible_words' = narrowed
                      /\ issued' = issued \cup Range(hs)
                      /\ IF exhausted(narrowed)
                         THEN pc' = "done" /\ outcome' = "Exhausted"
                         ELSE pc' = "play" /\ UNCHANGED outcome
                      /\ UNCHANGED turn
    /\ UNCHANGED <<file, count, idx, c, words, command, target, guess, call>>

-----------------------------------------------------------------------------

Next ==
    \/ ParseLine
    \/ ParseEnd
    \/ MainSolveBadTarget
    \/ MainSolve
    \/ MainPlay
    \/ SolveTurn
    \/ PlayGuess
    \/ PlayRead

Spec == Init /\ [][Next]_vars

-----------------------------------------------------------------------------
(* The pure functions on inputs of their own: narrow_guesses on any list   *)
(* and any hint vector, get_hints on any pair of 5-letter words.           *)

FnLetters == {"a", "b", "c"}

FnWords == [1..WordLen -> FnLetters]

FnPool == {
    <<"a","b","a","b","a">>,
    <<"b","b","a","a","c">>,
    <<"a","c","c","c","c">> }

FnPositions == {0, 1, WordLen - 1}

FnHints == [letter : {"a", "b"}, position : FnPositions, kind : Kinds]

SeqsUpTo(S, n) == UNION {[1..k -> S] : k \in 0..n}

InitFn ==
    /\ file = <<>>
    /\ count = 0
    /\ pc = "fn"
    /\ idx = 0
    /\ c = ToU64(0)
    /\ words = <<>>
    /\ command = "none"
    /\ target = <<>>
    /\ turn = 0
    /\ possible_words = <<>>
    /\ guess = <<>>
    /\ hint = <<>>
    /\ hints = <<>>
    /\ issued = {}
    /\ outcome = "Guessing"
    /\ call = NoCall

\* narrow_guesses(ws, hs), and narrow_guesses again on its result
CallNarrow ==
    /\ pc = "fn"
    /\ call = NoCall
    /\ \E ws \in SeqsUpTo(FnPool, MaxListLen), hs \in SeqsUpTo(FnHints, MaxHints) :
          LET out == narrow_guesses(ws, hs) IN
          call' = [fn |-> "narrow_guesses", words |-> ws, hints |-> hs,
                   out |-> out, again |-> narrow_guesses(out, hs)]
    /\ UNCHANGED <<file, count, pc, idx, c, words, command, target, turn,
                   possible_words, guess, hint, hints, issued, outcome>>

\* get_hints(g, t) and is_winner on its result
CallGetHints ==
    /\ pc = "fn"
    /\ call = NoCall
    /\ \E g \in FnWords, t \in FnWords :
          LET out == get_hints(g, t) IN
          call' = [fn |-> "get_hints", guess |-> g, target |-> t,
                   out |-> out, winner |-> is_winner(out)]
    /\ UNCHANGED <<file, count, pc, idx, c, words, command, target, turn,
                   possible_words, guess, hint, hints, issued, outcome>>

NextFn == CallNarrow \/ CallGetHints

SpecFn == InitFn /\ [][NextFn]_vars

-----------------------------------------------------------------------------
(* What the claims speak of, stated apart from the code above *)

Letters(word) == {word[i] : i \in 1..Len(word)}

\* a word is consistent with a hint
Satisfies(word, h) ==
    CASE h.kind = "g" -> word[h.position + 1] = h.letter
      [] h.kind = "y" -> word[h.position + 1] # h.letter /\ h.letter \in Letters(word)
      [] h.kind = "b" -> h.letter \notin Letters(word)
      [] OTHER -> TRUE

SatisfiesAll(word, hs) == \A i \in 1..Len(hs) : Satisfies(word, hs[i])

\* the subsequence of ws made of the words consistent with every hint of hs
Consistent(ws, hs) ==
    LET Keep(w) == SatisfiesAll(w, hs) IN SelectSeq(ws, Keep)

AllGreenHints(hs) == \A i \in 1..Len(hs) : hs[i].kind = "g"

Min(a, b) == IF a <= b THEN a ELSE b

\* the 5-letter words of a file, in file order
FiveLetterWords(f) ==
    LET IsFive(l) == Len(l[1]) = WordLen
        kept == SelectSeq(f, IsFive)
    IN  [i \in 1..Len(kept) |-> kept[i][1]]

Terminal == {"Won", "TurnLimitReached", "Exhausted"}

-----------------------------------------------------------------------------
\* C1: in solve and in play, every word of the candidate list is consistent
\* with every hint issued on an earlier turn of the run, and a step of the
\* loop never brings back a word that is no longer in the list.
C1_CandidatesConsistent ==
    /\ [](command # "none" =>
            \A i \in 1..Len(possible_words) : \A h \in issued :
                Satisfies(possible_words[i], h))
    /\ [][command # "none" => Range(possible_words') \subseteq Range(possible_words)]_vars

\* play, two narrowing turns with a yellow and a black hint behind them, and
\* candidates left
C1_Witness ==
    /\ command = "play"
    /\ pc = "play"
    /\ turn >= 2
    /\ Len(possible_words) >= 1
    /\ Len(possible_words) < Len(words)
    /\ \E h1, h2 \in issued :
          /\ h1.position = 0 /\ h2.position = 0 /\ h1.letter # h2.letter
          /\ h1.kind = "y" /\ h2.kind = "b"

-----------------------------------------------------------------------------
\* C2: on a non-empty word list and a 5-letter target, solve makes at most 6
\* guesses and ends in exactly one of Won, TurnLimitReached and Exhausted;
\* each turn counts the turn, guesses the first candidate, computes the
\* hints, and ends Won on all green, else TurnLimitReached from turn 6 on,
\* else narrows and ends Exhausted on an empty list, else goes on.
C2_InSolve == command = "solve" /\ Len(target) = WordLen /\ words # <<>>

C2_SolveTerminates ==
    /\ [](C2_InSolve =>
            /\ turn <= MaxTurns
            /\ outcome \in Terminal \cup {"Guessing"}
            /\ (pc = "solve") = (outcome = "Guessing")
            /\ (pc = "done") = (outcome \in Terminal)
            /\ outcome = "Guessing" => turn < MaxTurns /\ possible_words # <<>>
            /\ outcome = "Won" => turn >= 1 /\ AllGreenHints(hints)
            /\ outcome = "TurnLimitReached" => turn = MaxTurns /\ ~AllGreenHints(hints)
            /\ outcome = "Exhausted" =>
                  turn < MaxTurns /\ ~AllGreenHints(hints) /\ possible_words = <<>>)
    /\ [][(C2_InSolve /\ pc = "solve") =>
            /\ turn' = turn + 1
            /\ guess' = Head(possible_words)
            /\ Len(hints') = WordLen
            /\ outcome' =
                 IF AllGreenHints(hints') THEN "Won"
                 ELSE IF turn' >= MaxTurns THEN "TurnLimitReached"
                 ELSE IF Consistent(possible_words, hints') = <<>> THEN "Exhausted"
                 ELSE "Guessing"
            /\ possible_words' =
                 IF AllGreenHints(hints') \/ turn' >= MaxTurns THEN possible_words
                 ELSE Consistent(possible_words, hints')]_vars

\* solve gives up at the sixth guess with the target still in the list
C2_Witness ==
    /\ C2_InSolve
    /\ outcome = "TurnLimitReached"
    /\ \E i \in 1..Len(possible_words) : possible_words[i] = target

-----------------------------------------------------------------------------
\* C3: play stops once the turn counter reaches 6: with valid hint strings
\* that are never all green and never empty the list, the loop is not at
\* its head, nor waiting for a hint past the sixth, with 6 turns counted
\* (stated for a count of at least 1, where the loader keeps to the count).
C3_PlayStopsAtSix ==
    (command = "play" /\ count >= 1) =>
        /\ pc = "play" => turn < MaxTurns
        /\ pc = "play_read" => turn <= MaxTurns

-----------------------------------------------------------------------------
\* C4: in play a hint string whose length is not 5 is rejected: the loop
\* goes back to its head with the turn not counted and the candidates
\* unchanged, and the next iteration offers the same guess at the same
\* turn number.
C4_Rejected == pc = "play" /\ guess # <<>> /\ Len(hint) # WordLen

C4_InvalidHintRetried ==
    /\ [][(pc = "play_read" /\ Len(hint') # WordLen) =>
            /\ pc' = "play"
            /\ turn' = turn - 1
            /\ possible_words' = possible_words
            /\ guess' = guess
            /\ outcome' = outcome]_vars
    /\ [][C4_Rejected =>
            /\ pc' = "play_read"
            /\ turn' = turn + 1
            /\ guess' = guess
            /\ possible_words' = possible_words]_vars

\* a 4-character hint string was rejected on the third turn
C4_Witness ==
    /\ C4_Rejected
    /\ Len(hint) = WordLen - 1
    /\ turn = 2

-----------------------------------------------------------------------------
\* C5: narrow_guesses returns exactly the words of its input that satisfy
\* every hint, in the order of the input; the result is never longer than
\* the input.
C5_NarrowIsStableFilter ==
    call.fn = "narrow_guesses" =>
        /\ call.out = Consistent(call.words, call.hints)
        /\ Len(call.out) <= Len(call.words)

\* two words in, the first rejected by a yellow hint on its own position,
\* the second kept
C5_Witness ==
    /\ call.fn = "narrow_guesses"
    /\ Len(call.words) = 2
    /\ call.out = <<call.words[2]>>
    /\ call.words[1] # call.words[2]
    /\ \E i \in 1..Len(call.hints) :
          /\ call.hints[i].kind = "y"
          /\ call.words[1][call.hints[i].position + 1] = call.hints[i].letter

-----------------------------------------------------------------------------
\* C6: narrowing is idempotent: narrow_guesses applied to its own result
\* with the same hints returns that result.
C6_NarrowIdempotent ==
    call.fn = "narrow_guesses" => call.again = call.out

\* a narrowing that removed a word and kept one, applied again
C6_Witness ==
    /\ call.fn = "narrow_guesses"
    /\ Len(call.hints) = MaxHints
    /\ Len(call.out) >= 1
    /\ Len(call.out) < Len(call.words)
    /\ call.again = call.out

-----------------------------------------------------------------------------
\* C7: get_hints returns 5 hints in guess order, hint i with the letter
\* guess[i] and the position i, Black when the letter is nowhere in the
\* target, Green when the target has it at i, Yellow otherwise; a guess
\* equal to the target gets all Green and is a winner, a guess sharing no
\* letter with the target gets all Black.
C7_GetHints ==
    call.fn = "get_hints" =>
        /\ Len(call.out) = WordLen
        /\ \A i \in 1..WordLen :
              /\ call.out[i].letter = call.guess[i]
              /\ call.out[i].position = i - 1
              /\ call.out[i].kind =
                    IF call.guess[i] \notin Letters(call.target) THEN "b"
                    ELSE IF call.target[i] = call.guess[i] THEN "g"
                    ELSE "y"
        /\ call.winner = AllGreenHints(call.out)
        /\ call.guess = call.target => call.winner
        /\ Letters(call.guess) \cap Letters(call.target) = {} =>
              \A i \in 1..WordLen : call.out[i].kind = "b"

\* a guess with a repeated letter that the target holds once: green at one
\* place, yellow at another, and a black hint beside them
C7_Witness ==
    /\ call.fn = "get_hints"
    /\ ~call.winner
    /\ \E i, j, k \in 1..WordLen :
          /\ call.out[i].kind = "g"
          /\ call.out[j].kind = "y"
          /\ call.out[k].kind = "b"
          /\ call.guess[i] = call.guess[j]
          /\ Cardinality({n \in 1..WordLen : call.target[n] = call.guess[i]}) = 1

-----------------------------------------------------------------------------
\* C8: for every count of the u64 option, 0 included, parse_words returns
\* the first min(count, n) of the n 5-letter words of the file, in file
\* order, and at no time holds more than count words.
C8_LoadsFirstCount ==
    /\ outcome # "PanicOverflow"
    /\ Len(words) <= count
    /\ pc # "parse" =>
          words = SubSeq(FiveLetterWords(file), 1,
                         Min(count, Len(FiveLetterWords(file))))

-----------------------------------------------------------------------------
\* C9: whenever solve or play takes the first element of the candidate
\* list, the list is not empty, whatever list the loader produced: the
\* unwrap of the first element never fails (stated for a count of at least
\* 1, where the loader keeps to the count).
C9_GuessFromNonEmpty == count >= 1 => outcome # "PanicEmptyList"

-----------------------------------------------------------------------------
\* C10: in solve the target satisfies every hint computed against it, so a
\* target that is in the loaded list stays in the candidate list and solve
\* does not end Exhausted; a guess that does not win fails one of its own
\* hints, and every narrowing of solve drops it and shortens the list.
C10_InSolve == command = "solve" /\ Len(target) = WordLen

====
